---- MODULE Spec2Model ----
(***************************************************************************)
(* STREETLAB front-end scripts: the size selector (static/js/product.js)   *)
(* and the toast notifier.  The state is the part of the document the two  *)
(* scripts read and write, the constants the size selector binds when it   *)
(* is executed, and the pending toast timer.  The page is parsed element   *)
(* by element; a classic script is executed at the point of the parse at   *)
(* which its tag is met, which the page (not the script) decides.          *)
(***************************************************************************)
EXTENDS Integers, Sequences, FiniteSets, TLC

\* ---------------------------------------------------------------- bounds
\* Number of ".option" elements in the page markup.
NumOptions == 2
\* Longest toast text.
MaxText == 1

\* ------------------------------------------------------------ the page
MarkupOptions == 1..NumOptions
\* One ".option" element that page code inserts after the markup was parsed.
LateOption == NumOptions + 1
AllOptions == MarkupOptions \cup {LateOption}
Ids == {"selectedSize", "addToCartBtn", "toast"}
Null == "null"
Chars == {" ", "x"}
WhiteSpace == {" "}
SizeNames == <<"S", "M", "L", "XL", "XXL">>
Texts == UNION {[1..n -> Chars] : n \in 0..MaxText}

VARIABLES
  toastText,     \* textContent of #toast
  disabled,      \* options carrying class "disabled"
  markupActive,  \* an option of the markup came with class "active"
  dom,           \* ".option" elements in the document so far
  domIds,        \* elements with an id in the document so far
  active,        \* options carrying class "active"
  inputValue,    \* #selectedSize .value
  btnDisabled,   \* #addToCartBtn .disabled
  btnMarker,     \* #addToCartBtn carries class "btn--disabled"
  toastShow,     \* #toast carries class "show"
  productRun,    \* product.js has been executed
  sizeButtons,   \* const sizeButtons: the static NodeList, the options with a listener
  sizeInput,     \* const sizeInput
  addToCartBtn,  \* const addToCartBtn
  toastListener, \* the toast script has registered its DOMContentLoaded listener
  domReady,      \* DOMContentLoaded has been dispatched
  timerPending,  \* the setTimeout callback is scheduled and has not run
  timersSet,     \* number of setTimeout calls made
  showAdds,      \* number of classList.add("show") calls made
  lastClick,     \* the option clicked last, 0 before the first click
  repeated,      \* the last two clicks ran the listener of the same option
  lastRan,       \* the last click ran a listener (its target was a bound option)
  lastValid,     \* the bound, non-disabled option clicked last, 0 before the first
  duringToast,   \* a bound, non-disabled option was clicked while the timer was pending
  threw,         \* the handler that ran last ended with an uncaught TypeError
  enabledByClick \* the click handler has executed lines 20-21

pageVars == <<toastText, disabled, markupActive>>
docVars == <<dom, domIds>>
selVars == <<active, inputValue, btnDisabled, btnMarker>>
bindVars == <<productRun, sizeButtons, sizeInput, addToCartBtn>>
toastVars == <<toastShow, timerPending, timersSet, showAdds>>
clickVars == <<lastClick, repeated, lastRan, lastValid, duringToast>>
vars == <<pageVars, docVars, selVars, bindVars, toastVars, toastListener,
          domReady, clickVars, threw, enabledByClick>>

\* ------------------------------------------------------------ DOM helpers
\* document.getElementById(id): the element, or null when the document has none.
GetElementById(id) == IF id \in domIds THEN id ELSE Null

\* document.querySelectorAll(".option"): a static list of the matches now in
\* the document.
QuerySelectorAll == dom

\* button.dataset.size: the data-size attribute, undefined when absent.
JSUndefined == [type |-> "undefined"]
JSString(s) == [type |-> "string", val |-> s]
DatasetSize(b) == IF b \in DOMAIN SizeNames THEN JSString(SizeNames[b]) ELSE JSUndefined

\* Assigning to HTMLInputElement.value converts the value to a DOMString.
ToDOMString(v) == IF v.type = "undefined" THEN "undefined" ELSE v.val

\* String.prototype.trim on a text given as a sequence of characters.
RECURSIVE TrimStart(_)
TrimStart(s) ==
  IF s = <<>> THEN s
  ELSE IF Head(s) \in WhiteSpace THEN TrimStart(Tail(s)) ELSE s
RECURSIVE TrimEnd(_)
TrimEnd(s) ==
  IF s = <<>> THEN s
  ELSE IF s[Len(s)] \in WhiteSpace THEN TrimEnd(SubSeq(s, 1, Len(s) - 1)) ELSE s
Trim_Identity(s) == s
Trim(s) == TrimEnd(TrimStart(s))

\* ------------------------------------------------------------ initial state
\* The empty document of a page that is about to be parsed.  The add-to-cart
\* button is served disabled, with class "btn--disabled" (what lines 19-21 undo),
\* and the hidden input empty.
Init ==
  /\ toastText = <<>>
  /\ disabled = {}
  /\ markupActive = FALSE
  /\ dom = {}
  /\ domIds = {}
  /\ active = {}
  /\ inputValue = ""
  /\ btnDisabled = TRUE
  /\ btnMarker = TRUE
  /\ toastShow = FALSE
  /\ productRun = FALSE
  /\ sizeButtons = {}
  /\ sizeInput = Null
  /\ addToCartBtn = Null
  /\ toastListener = FALSE
  /\ domReady = FALSE
  /\ timerPending = FALSE
  /\ timersSet = 0
  /\ showAdds = 0
  /\ lastClick = 0
  /\ repeated = FALSE
  /\ lastRan = FALSE
  /\ lastValid = 0
  /\ duringToast = FALSE
  /\ threw = FALSE
  /\ enabledByClick = FALSE

\* ------------------------------------------------------------ page load
\* The parser inserts the next ".option" element of the markup; the options are
\* numbered in document order.  The markup gives it class "disabled" or not, and
\* class "active" to at most one option (the server's preselection).
ParseOption(b, dis, act) ==
  /\ ~domReady
  /\ b \in MarkupOptions \ dom
  /\ \A c \in MarkupOptions : c < b => c \in dom
  /\ act => ~markupActive
  /\ dom' = dom \cup {b}
  /\ disabled' = IF dis THEN disabled \cup {b} ELSE disabled
  /\ active' = IF act THEN active \cup {b} ELSE active
  /\ markupActive' = (markupActive \/ act)
  /\ UNCHANGED <<toastText, domIds, inputValue, btnDisabled, btnMarker, bindVars,
                 toastVars, toastListener, domReady, clickVars, threw, enabledByClick>>

\* The parser inserts an element that carries an id; #toast comes with its text.
ParseId(id, text) ==
  /\ ~domReady
  /\ id \in Ids \ domIds
  /\ domIds' = domIds \cup {id}
  /\ toastText' = IF id = "toast" THEN text ELSE toastText
  /\ (id # "toast" => text = <<>>)
  /\ UNCHANGED <<disabled, markupActive, dom, selVars, bindVars, toastVars,
                 toastListener, domReady, clickVars, threw, enabledByClick>>

\* Page code inserts one more ".option" element once the document is ready,
\* with class "active" or without.
AddOption(act) ==
  /\ domReady
  /\ LateOption \notin dom
  /\ dom' = dom \cup {LateOption}
  /\ active' = IF act THEN active \cup {LateOption} ELSE active
  /\ UNCHANGED <<pageVars, domIds, inputValue, btnDisabled, btnMarker, bindVars,
                 toastVars, toastListener, domReady, clickVars, threw, enabledByClick>>

\* product.js lines 2-7: the top level of the script, run when its tag is met.
RunProductScript ==
  /\ ~productRun
  /\ ~domReady
  /\ productRun' = TRUE
  /\ sizeButtons' = QuerySelectorAll
  /\ sizeInput' = GetElementById("selectedSize")
  /\ addToCartBtn' = GetElementById("addToCartBtn")
  /\ UNCHANGED <<pageVars, docVars, selVars, toastVars, toastListener,
                 domReady, clickVars, threw, enabledByClick>>

\* The toast script, line 1: document.addEventListener("DOMContentLoaded", ...).
RunToastScript ==
  /\ ~toastListener
  /\ ~domReady
  /\ toastListener' = TRUE
  /\ UNCHANGED <<pageVars, docVars, selVars, bindVars, toastVars,
                 domReady, clickVars, threw, enabledByClick>>

\* ------------------------------------------------------------ size selector
\* Line 7: the options that were given a click listener.
HasListener(b) == b \in sizeButtons

\* Line 8: if (button.classList.contains("disabled")) return;
IgnoresClick_NoGuard(b) == FALSE
IgnoresClick(b) == b \in disabled

\* Lines 11 and 14: clear "active" on every bound option, set it on the clicked one.
ActiveAfterClick_NoClear(b) == active \cup {b}
ActiveAfterClick_Toggle(b) ==
  IF b \in active THEN active \ sizeButtons ELSE (active \ sizeButtons) \cup {b}
ActiveAfterClick_ClearDocument(b) == (active \ dom) \cup {b}
ActiveAfterClick(b) == (active \ sizeButtons) \cup {b}

\* Line 17: sizeInput.value = button.dataset.size;
ValueAfterClick_KeepFirst(b) ==
  IF inputValue = "" THEN ToDOMString(DatasetSize(b)) ELSE inputValue
ValueAfterClick(b) == ToDOMString(DatasetSize(b))

\* Line 20: addToCartBtn.disabled = false;
DisabledAfterClick_WhileToast == timerPending
DisabledAfterClick_Toggle == ~btnDisabled
DisabledAfterClick == FALSE

\* Line 21: addToCartBtn.classList.remove("btn--disabled");
MarkerAfterClick == FALSE

\* The handler with lines 20-21 moved before line 17.
Click_EnableFirst(b) ==
  /\ b \in dom
  /\ productRun
  /\ lastClick' = b
  /\ repeated' = (lastClick = b /\ lastRan /\ HasListener(b))
  /\ lastRan' = HasListener(b)
  /\ lastValid' = IF HasListener(b) /\ ~IgnoresClick(b) THEN b ELSE lastValid
  /\ duringToast' = (duringToast \/ (timerPending /\ HasListener(b) /\ ~IgnoresClick(b)))
  /\ IF ~HasListener(b)
       THEN UNCHANGED <<selVars, threw, enabledByClick>>
     ELSE IF IgnoresClick(b)
       THEN /\ threw' = FALSE
            /\ UNCHANGED <<selVars, enabledByClick>>
     ELSE /\ active' = ActiveAfterClick(b)
          /\ IF addToCartBtn = Null
               THEN /\ threw' = TRUE
                    /\ UNCHANGED <<inputValue, btnDisabled, btnMarker, enabledByClick>>
             ELSE /\ btnDisabled' = DisabledAfterClick
                  /\ btnMarker' = MarkerAfterClick
                  /\ enabledByClick' = TRUE
                  /\ IF sizeInput = Null
                       THEN /\ threw' = TRUE
                            /\ UNCHANGED inputValue
                     ELSE /\ inputValue' = ValueAfterClick(b)
                          /\ threw' = FALSE
  /\ UNCHANGED <<pageVars, docVars, bindVars, toastVars, toastListener, domReady>>

\* Lines 7-22: a click on option b of the document.  Before product.js has run no
\* option has a listener and a click reaches no code of the scripts.
Click(b) ==
  /\ b \in dom
  /\ productRun
  /\ lastClick' = b
  /\ repeated' = (lastClick = b /\ lastRan /\ HasListener(b))
  /\ lastRan' = HasListener(b)
  /\ lastValid' = IF HasListener(b) /\ ~IgnoresClick(b) THEN b ELSE lastValid
  /\ duringToast' = (duringToast \/ (timerPending /\ HasListener(b) /\ ~IgnoresClick(b)))
  /\ IF ~HasListener(b)
       THEN UNCHANGED <<selVars, threw, enabledByClick>>
     ELSE IF IgnoresClick(b)
       THEN /\ threw' = FALSE
            /\ UNCHANGED <<selVars, enabledByClick>>
     ELSE /\ active' = ActiveAfterClick(b)
          /\ IF sizeInput = Null
               THEN /\ threw' = TRUE
                    /\ UNCHANGED <<inputValue, btnDisabled, btnMarker, enabledByClick>>
             ELSE /\ inputValue' = ValueAfterClick(b)
                  /\ IF addToCartBtn = Null
                       THEN /\ threw' = TRUE
                            /\ UNCHANGED <<btnDisabled, btnMarker, enabledByClick>>
                     ELSE /\ btnDisabled' = DisabledAfterClick
                          /\ btnMarker' = MarkerAfterClick
                          /\ threw' = FALSE
                          /\ enabledByClick' = TRUE
  /\ UNCHANGED <<pageVars, docVars, bindVars, toastVars, toastListener, domReady>>

\* ------------------------------------------------------------ toast
\* Line 4: if (!toast) return;
ToastMissing_NoGuard == FALSE
ToastMissing == GetElementById("toast") = Null

\* Lines 6 and 8: message = toast.textContent.trim(); message.length > 0
HasMessage == Len(Trim(toastText)) > 0

\* Line 12: toast.classList.remove("show");
ShowAfterTimer_Keep == toastShow
ShowAfterTimer == FALSE

\* Lines 1-15: the document has been parsed and DOMContentLoaded is dispatched.
DOMContentLoaded ==
  /\ ~domReady
  /\ productRun
  /\ toastListener
  /\ domReady' = TRUE
  /\ IF ToastMissing
       THEN /\ threw' = FALSE
            /\ UNCHANGED toastVars
     ELSE IF GetElementById("toast") = Null
       THEN /\ threw' = TRUE
            /\ UNCHANGED toastVars
     ELSE /\ threw' = FALSE
          /\ IF HasMessage
               THEN /\ toastShow' = TRUE
                    /\ showAdds' = showAdds + 1
                    /\ timerPending' = TRUE
                    /\ timersSet' = timersSet + 1
             ELSE UNCHANGED toastVars
  /\ UNCHANGED <<pageVars, docVars, selVars, bindVars, toastListener,
                 clickVars, enabledByClick>>

\* Lines 11-13: the timer set by the handler fires.
TimerFire ==
  /\ timerPending
  /\ timerPending' = FALSE
  /\ toastShow' = ShowAfterTimer
  /\ threw' = FALSE
  /\ UNCHANGED <<pageVars, docVars, selVars, bindVars, timersSet, showAdds,
                 toastListener, domReady, clickVars, enabledByClick>>

\* ------------------------------------------------------------ specification
Next ==
  \/ \E b \in MarkupOptions, dis \in BOOLEAN, act \in BOOLEAN : ParseOption(b, dis, act)
  \/ \E id \in Ids, text \in Texts : ParseId(id, text)
  \/ \E act \in BOOLEAN : AddOption(act)
  \/ RunProductScript
  \/ RunToastScript
  \/ \E b \in AllOptions : Click(b)
  \/ DOMContentLoaded
  \/ TimerFire

Spec == Init /\ [][Next]_vars

\* The event loop runs every task that is ready: the parser, the scripts, the
\* DOMContentLoaded dispatch and the timer.  Clicks are the user's choice.
FairSpec ==
  /\ Spec
  /\ WF_vars(RunProductScript)
  /\ WF_vars(RunToastScript)
  /\ WF_vars(DOMContentLoaded)
  /\ WF_vars(TimerFire)

TypeOK ==
  /\ domIds \subseteq Ids
  /\ toastText \in Texts
  /\ disabled \subseteq AllOptions
  /\ dom \subseteq AllOptions
  /\ active \subseteq AllOptions
  /\ sizeButtons \subseteq dom
  /\ sizeInput \in {Null, "selectedSize"}
  /\ addToCartBtn \in {Null, "addToCartBtn"}
  /\ timersSet \in 0..1
  /\ lastClick \in {0} \cup AllOptions

\* ------------------------------------------------------------ properties
\* The observable state of the size selector.
Observable == <<active, inputValue, btnDisabled, btnMarker>>
OnlyWhiteSpace(s) == \A i \in 1..Len(s) : s[i] \in WhiteSpace

\* C1: in every reachable state at most one option of the bound set carries
\* class "active".
C1_AtMostOneActive == Cardinality(active \cap sizeButtons) <= 1
\* A valid click on one of several bound options, one of them preselected.
C1_Witness ==
  /\ Cardinality(sizeButtons) >= 2
  /\ markupActive
  /\ lastClick \in sizeButtons \ disabled
  /\ active \cap sizeButtons = {lastClick}

\* C2 (as claimed): once the page is ready, a click on a non-disabled option b of
\* the markup, in a document that holds the hidden input and the add-to-cart
\* button, leaves b the only selected option of the markup, the hidden input's
\* value b's data-size, and the button enabled without its "btn--disabled" class.
C2_ValidClickPostState ==
  [][\A b \in MarkupOptions :
       ( /\ domReady
         /\ b \notin disabled
         /\ "selectedSize" \in domIds
         /\ "addToCartBtn" \in domIds
         /\ Click(b) )
       => ( /\ active' \cap MarkupOptions = {b}
            /\ inputValue' = SizeNames[b]
            /\ btnDisabled' = FALSE
            /\ btnMarker' = FALSE )]_vars

\* C3: a click on an option that carries class "disabled" changes neither the
\* selected options, nor the hidden input's value, nor the button's disabled flag
\* and class.
C3_DisabledClickNoOp ==
  [][\A b \in AllOptions : (b \in disabled /\ Click(b)) => UNCHANGED Observable]_vars
\* A disabled bound option was clicked after another option had been selected.
C3_Witness ==
  /\ lastClick \in disabled \cap sizeButtons
  /\ enabledByClick
  /\ active \cap sizeButtons # {}
  /\ lastClick \notin active

\* C4: once a click on a non-disabled option has enabled the add-to-cart button,
\* the button is enabled and without its "btn--disabled" class in every later state.
C4_EnabledStaysEnabled == enabledByClick => (~btnDisabled /\ ~btnMarker)
\* The button was enabled, the toast timer has fired, and the last click was a
\* repeated click on a disabled option.
C4_Witness ==
  /\ enabledByClick
  /\ timersSet = 1
  /\ ~timerPending
  /\ lastClick \in disabled \cap sizeButtons
  /\ repeated

\* C5: when #toast exists and its text holds a character that is not white space,
\* the DOMContentLoaded handler sets class "show" and schedules the one removal in
\* the same step; the class is eventually removed by the timer; and once the timer
\* has fired the class is never set again.
C5_ToastLifecycle ==
  /\ [][( /\ ~domReady
          /\ domReady'
          /\ "toast" \in domIds
          /\ ~OnlyWhiteSpace(toastText) )
        => ( /\ toastShow'
             /\ timerPending'
             /\ timersSet' = 1
             /\ showAdds' = 1 )]_vars
  /\ [](timersSet <= 1 /\ showAdds <= 1)
  /\ ((toastShow /\ timerPending) ~> (~toastShow /\ ~timerPending))
  /\ [][(timersSet = 1 /\ ~timerPending) => (~toastShow' /\ showAdds' = showAdds)]_vars
\* The toast was shown and the timer has removed it.
C5_Witness ==
  /\ "toast" \in domIds
  /\ ~OnlyWhiteSpace(toastText)
  /\ showAdds = 1
  /\ timersSet = 1
  /\ ~timerPending
  /\ ~toastShow

\* C6: when the text of #toast is empty or only white space, class "show" is never
\* set and no timer is ever scheduled.
C6_EmptyToastNeverShown ==
  ("toast" \in domIds /\ OnlyWhiteSpace(toastText))
    => (showAdds = 0 /\ timersSet = 0 /\ ~toastShow /\ ~timerPending)
\* The page is ready and #toast holds white space only.
C6_Witness ==
  /\ domReady
  /\ "toast" \in domIds
  /\ Len(toastText) > 0
  /\ OnlyWhiteSpace(toastText)

\* C7: when the document holds no #toast at DOMContentLoaded, the handler ends
\* without an error, changes nothing in the document and schedules no timer.
C7_MissingToastNoOp ==
  [][(~domReady /\ domReady' /\ "toast" \notin domIds)
       => ( /\ threw' = FALSE
            /\ UNCHANGED <<toastVars, selVars, docVars, pageVars>> )]_vars
\* The page became ready without #toast, and nothing has happened since.
C7_Witness ==
  /\ domReady
  /\ "toast" \notin domIds
  /\ ~threw
  /\ timersSet = 0
  /\ lastClick = 0

\* C8: a click on a non-disabled option b that follows a click on b leaves the
\* selected options, the hidden input's value and the button's flag and class as
\* the first click left them.
C8_RepeatedClickIdempotent ==
  [][\A b \in AllOptions :
       (b \notin disabled /\ lastClick = b /\ Click(b)) => UNCHANGED Observable]_vars
\* A bound, non-disabled option was clicked twice in a row, with full effect.
C8_Witness ==
  /\ repeated
  /\ lastClick \in sizeButtons \ disabled
  /\ enabledByClick
  /\ active \cap sizeButtons = {lastClick}

\* C9 (as claimed): the script binds on page-ready, so once the page is ready
\* every option of the markup has a click listener and the two constants hold
\* the hidden input and the button of the document.
C9_BoundOnPageReady ==
  domReady =>
    /\ dom \cap MarkupOptions \subseteq sizeButtons
    /\ sizeInput = GetElementById("selectedSize")
    /\ addToCartBtn = GetElementById("addToCartBtn")

\* C10: an option that is not in the set bound by the script has no listener, so a
\* click on it changes nothing; and a click on any option leaves class "active"
\* as it was on every other option outside the bound set.
C10_BoundSetFixed ==
  /\ [][sizeButtons' # sizeButtons => ~productRun]_vars
  /\ [][\A b \in AllOptions :
          Click(b) =>
            /\ (b \notin sizeButtons =>
                  UNCHANGED <<Observable, toastVars, bindVars, threw>>)
            /\ \A c \in AllOptions \ (sizeButtons \cup {b}) :
                  (c \in active') = (c \in active)]_vars
\* The late option carries class "active" while a bound option is selected by a
\* click, and the late option itself has been in the document.
C10_Witness ==
  /\ LateOption \in dom
  /\ LateOption \in active
  /\ lastClick \in sizeButtons \ disabled
  /\ active \cap sizeButtons = {lastClick}
  /\ enabledByClick

\* C11: in every state in which the click handler has enabled the add-to-cart
\* button, exactly one option of the bound set carries class "active", it is the
\* non-disabled bound option clicked last, and the hidden input's value is its
\* data-size; and before the first click on such an option the hidden input and
\* the button are as the page served them.
C11_SelectionConsistent ==
  /\ enabledByClick =>
       /\ lastValid \in sizeButtons \ disabled
       /\ active \cap sizeButtons = {lastValid}
       /\ inputValue = SizeNames[lastValid]
       /\ ~btnDisabled
       /\ ~btnMarker
  /\ lastValid = 0 =>
       /\ ~enabledByClick
       /\ inputValue = ""
       /\ btnDisabled
       /\ btnMarker
\* The button is enabled and a disabled bound option has been clicked since the
\* selection was made.
C11_Witness ==
  /\ enabledByClick
  /\ lastValid # 0
  /\ lastClick \in sizeButtons \cap disabled
  /\ active \cap sizeButtons = {lastValid}
  /\ inputValue = SizeNames[lastValid]

\* C12: while the document holds no #selectedSize, a click on a non-disabled
\* bound option ends with a TypeError after class "active" has moved to the
\* clicked option, and leaves the hidden value and the add-to-cart button
\* untouched; so the button is never enabled.
C12_MissingInputFails ==
  /\ [][\A b \in AllOptions :
          ( /\ "selectedSize" \notin domIds
            /\ b \in sizeButtons \ disabled
            /\ Click(b) )
          => ( /\ threw'
               /\ active' \cap sizeButtons = {b}
               /\ UNCHANGED <<inputValue, btnDisabled, btnMarker, enabledByClick>> )]_vars
  /\ []("selectedSize" \notin domIds
          => (~enabledByClick /\ btnDisabled /\ btnMarker /\ inputValue = ""))
\* The page is ready without #selectedSize but with the button bound and an
\* option preselected, and the last click, on a bound option, has thrown.
C12_Witness ==
  /\ domReady
  /\ "selectedSize" \notin domIds
  /\ addToCartBtn # Null
  /\ markupActive
  /\ threw
  /\ lastClick \in sizeButtons \ disabled
  /\ active \cap sizeButtons = {lastClick}
  /\ btnDisabled

\* What the clicks alone make of the size selector: a function of the constants
\* bound by the script and of the bound, non-disabled option clicked last.
SelectorOutcome ==
  /\ lastValid # 0 => active \cap sizeButtons = {lastValid}
  /\ inputValue = IF lastValid # 0 /\ sizeInput # Null THEN SizeNames[lastValid] ELSE ""
  /\ btnDisabled = ~(lastValid # 0 /\ sizeInput # Null /\ addToCartBtn # Null)
  /\ btnMarker = btnDisabled

\* C13: a click is processed whether or not the removal is pending; a click leaves
\* the toast's class, the timer and the counts of timers and of "show" unchanged;
\* the removal runs once, removes "show" and leaves the size selector unchanged;
\* so in every order of the timer and the clicks the size selector is what the
\* clicks alone make it and the toast ends hidden.
C13_TimerClickIndependent ==
  /\ [](\A b \in dom : productRun => ENABLED Click(b))
  /\ [][\A b \in AllOptions : Click(b) => UNCHANGED toastVars]_vars
  /\ [][(timerPending /\ ~timerPending')
          => ( /\ ~toastShow'
               /\ UNCHANGED <<selVars, bindVars, docVars, timersSet, showAdds>> )]_vars
  /\ [][(~timerPending /\ timersSet = 1) => ~timerPending']_vars
  /\ (timerPending ~> ~timerPending)
  /\ [](SelectorOutcome /\ (timersSet = 1 /\ ~timerPending => ~toastShow))
\* A bound, non-disabled option was clicked while the removal was pending, the
\* timer has fired since, and the last click selected an option with full effect.
C13_Witness ==
  /\ duringToast
  /\ timersSet = 1
  /\ ~timerPending
  /\ ~toastShow
  /\ enabledByClick
  /\ lastRan
  /\ lastClick = lastValid
  /\ active \cap sizeButtons = {lastValid}
====
